---------------------------- MODULE Spec2Model ----------------------------
(***************************************************************************)
(* Trustpilot review ETL: scraper (src/src/scraper.py), cleaner            *)
(* (src/src/cleaner.py), SQLite loader (src/src/loader.py) and the DAG     *)
(* tasks that chain them (src/airflow_dag.py).                             *)
(*                                                                         *)
(* Values.  A Python str is a sequence of one-character strings.  Python   *)
(* None / pandas NaN in a text column is the one-element sequence None,    *)
(* whose element is not a character.  A rating is a record [t, n]: an      *)
(* integer, None/NA, or a non-numeric string.  A date is a record          *)
(* [k, s, ts]: a raw string, None, a parsed timestamp or NaT.              *)
(***************************************************************************)
EXTENDS Integers, Sequences, FiniteSets, TLC

VARIABLES
    \* ---- scraper (TrustpilotScraper) ----
    page_num,       \* loop variable of scrape_all_pages
    all_reviews,    \* the accumulated batch
    attempts,       \* history: how often scrape_page was called per page
    failed_pages,   \* history: pages whose scrape_page raised
    reviews,        \* self.reviews
    scrape_pc,      \* position inside scrape_reviews (the DAG task)
    page_cards,     \* review_cards of the last scrape_page that returned
    page_reviews,   \* page_reviews it returned
    card,           \* card handed to _parse_review_card
    review,         \* the review dict of _parse_review_card
    parse_pc,       \* next statement of its try block (0: not called)
    \* ---- files ----
    raw_file,       \* data/raw_reviews.json  (Absent or a list of records)
    cleaned_file,   \* data/cleaned_reviews.json
    \* ---- cleaner (ReviewCleaner) ----
    df,             \* self.df: sequence of [idx, row]
    cleaned_df,     \* self.cleaned_df
    rows_dropped,   \* rows_dropped of handle_missing_values
    dedup_removed,  \* removed of remove_duplicates
    clean_pc,       \* position inside clean_reviews (the DAG task)
    \* ---- loader (ReviewLoader) ----
    table,          \* committed rows of table reviews
    seq,            \* sqlite_sequence of reviews.id (AUTOINCREMENT)
    inserted,       \* return value of the last insert_reviews
    last_batch,     \* argument of the last insert_reviews
    prev_table,     \* history: the table before the last insert_reviews
    ingested_ids,   \* history: review_id of every record handed to insert_reviews
    all_valid,      \* history: every record so far satisfied the constraints
    calls,          \* number of insert_reviews calls so far
    load_pc         \* position inside load_to_database (the DAG task)

vars == <<page_num, all_reviews, attempts, failed_pages, reviews, scrape_pc,
          page_cards, page_reviews,
          card, review, parse_pc, raw_file, cleaned_file, df, cleaned_df, rows_dropped,
          dedup_removed, clean_pc, table, seq, inserted, last_batch, prev_table,
          ingested_ids, all_valid, calls, load_pc>>

scraperVars == <<page_num, all_reviews, attempts, failed_pages, reviews, scrape_pc,
                 page_cards, page_reviews>>
cardVars    == <<card, review, parse_pc>>
cleanerVars == <<df, cleaned_df, rows_dropped, dedup_removed, clean_pc>>
storeVars   == <<table, seq, inserted, last_batch, prev_table, ingested_ids,
                 all_valid, calls, load_pc>>

(***************************************************************************)
(* Bounds of the model.                                                    *)
(***************************************************************************)
MaxBatch == 2      \* records in a raw artifact / in one insert_reviews batch
MaxCalls == 2      \* insert_reviews calls in one run of the store model
MaxCards == 2      \* article elements on one page
MaxParagraphs == 2 \* p elements inside one article
MaxRows == 3       \* records in the raw artifact of the dedup model
NumPages == 2      \* num_pages handed to scrape_all_pages

(***************************************************************************)
(* Text                                                                    *)
(***************************************************************************)
NoneTok == "<None>"
None == <<NoneTok>>

WordChars == {"a","b","c","d","e","f","g","h","i","j","k","l","m","n","o","p",
              "q","r","s","t","u","v","w","x","y","z",
              "A","B","C","D","E","F","G","H","I","J","K","L","M","N","O","P",
              "Q","R","S","T","U","V","W","X","Y","Z",
              "0","1","2","3","4","5","6","7","8","9","_"}
SpaceChars == {" ", "\t", "\n"}
KeptPunct == {".", ",", "!", "?", "'", "\"", "-"}

IsSpace(c) == c \in SpaceChars

RECURSIVE LStrip(_)
LStrip(s) == IF s # <<>> /\ IsSpace(Head(s)) THEN LStrip(Tail(s)) ELSE s

RECURSIVE RStrip(_)
RStrip(s) == IF s # <<>> /\ IsSpace(s[Len(s)])
             THEN RStrip(SubSeq(s, 1, Len(s) - 1)) ELSE s

\* str.strip()
Strip(s) == RStrip(LStrip(s))

\* re.sub(r'\s+', ' ', text)
RECURSIVE CollapseWhitespace(_)
CollapseWhitespace(s) ==
    IF s = <<>> THEN <<>>
    ELSE IF IsSpace(Head(s))
         THEN <<" ">> \o CollapseWhitespace(LStrip(Tail(s)))
         ELSE <<Head(s)>> \o CollapseWhitespace(Tail(s))

\* re.sub(r'[^\w\s.,!?\'"-]', '', text)
KeepChar(c) == c \in WordChars \/ IsSpace(c) \/ c \in KeptPunct
RemoveSpecial(s) == SelectSeq(s, KeepChar)

\* clean_text of normalize_text_fields: None passes through
clean_text(text) ==
    IF text = None THEN text
    ELSE RemoveSpecial(Strip(CollapseWhitespace(text)))

\* str(x) of a text cell
Str(x) == IF x = None THEN <<"N","o","n","e">> ELSE x

(***************************************************************************)
(* Ratings and dates                                                       *)
(***************************************************************************)
RInt(n) == [t |-> "int", n |-> n]
RNone == [t |-> "None", n |-> 0]           \* None / NaN / pd.NA
RStr == [t |-> "str", n |-> 0]             \* a non-numeric string

DStr(s) == [k |-> "str", s |-> s, ts |-> 0]    \* a date string
DNone == [k |-> "None", s |-> <<>>, ts |-> 0]  \* None
DTs(n) == [k |-> "ts", s |-> <<>>, ts |-> n]   \* a parsed Timestamp
NaT == [k |-> "NaT", s |-> <<>>, ts |-> 0]

FieldNames == {"review_id", "rating", "title", "body", "reviewer_name",
               "date", "is_verified"}

\* one record of a JSON artifact; keys: the keys the dict has
Rec(id, rating, title, body, name, date, ver, keys) ==
    [review_id |-> id, rating |-> rating, title |-> title, body |-> body,
     reviewer_name |-> name, date |-> date, is_verified |-> ver, keys |-> keys]

\* a JSON artifact on disk
Absent == [exists |-> FALSE, data |-> <<>>]
File(data) == [exists |-> TRUE, data |-> data]

\* a frame without columns or rows; also stands for self.df = None before load_data
EmptyFrame == [columns |-> {}, rows |-> <<>>]

(***************************************************************************)
(* ReviewLoader (src/src/loader.py)                                        *)
(***************************************************************************)
RatingMin == 1
RatingMax == 5

\* CREATE_TABLE_SQL: the NOT NULL and CHECK constraints of one row.  Under
\* INSERT OR REPLACE a NOT NULL or CHECK violation aborts the statement
\* (sqlite3.IntegrityError).
SatisfiesConstraints(r) ==
    /\ r.review_id # None
    /\ r.rating.t = "int" /\ r.rating.n >= RatingMin /\ r.rating.n <= RatingMax
    /\ r.title # None
    /\ r.reviewer_name # None
    /\ r.date.k # "None"

\* review['review_id'], review['rating'], ... raise KeyError on a missing key;
\* review.get('body') and review.get('is_verified', False) do not.
SubscriptedKeys == {"review_id", "rating", "title", "reviewer_name", "date"}
RaisesKeyError(r) == ~(SubscriptedKeys \subseteq r.keys)

\* the parameter tuple of cursor.execute
StoredRow(rowid, r) ==
    [id |-> rowid,
     review_id |-> r.review_id,
     rating |-> r.rating.n,
     title |-> r.title,
     body |-> IF "body" \in r.keys THEN r.body ELSE None,
     reviewer_name |-> r.reviewer_name,
     date |-> r.date,
     is_verified |-> IF "is_verified" \in r.keys /\ r.is_verified THEN 1 ELSE 0]

\* INSERT OR IGNORE instead of INSERT OR REPLACE: the stored row wins
InsertOrIgnore(tbl, rowid, r) ==
    IF \E x \in tbl : x.review_id = r.review_id THEN tbl
    ELSE tbl \cup {StoredRow(rowid, r)}

\* a plain INSERT into a table without the UNIQUE constraint
InsertAppend(tbl, rowid, r) == tbl \cup {StoredRow(rowid, r)}

\* INSERT OR REPLACE on the UNIQUE column review_id: the rows in conflict are
\* deleted, the new row gets the next AUTOINCREMENT id.
InsertOrReplace(tbl, rowid, r) ==
    {x \in tbl : x.review_id # r.review_id} \cup {StoredRow(rowid, r)}

\* the loop of insert_reviews over reviews[i..]; st = [table, seq, inserted, raised]
RECURSIVE InsertLoop(_, _, _)
InsertLoop(batch, i, st) ==
    IF i > Len(batch) THEN st
    ELSE LET r == batch[i] IN
         IF RaisesKeyError(r)
         THEN [st EXCEPT !.raised = TRUE]          \* not a sqlite3.Error: propagates
         ELSE IF SatisfiesConstraints(r)
              THEN InsertLoop(batch, i + 1,
                       [st EXCEPT !.table = InsertOrReplace(st.table, st.seq + 1, r),
                                  !.seq = st.seq + 1,
                                  !.inserted = st.inserted + 1])
              ELSE InsertLoop(batch, i + 1, st)    \* except sqlite3.Error: warning

\* insert_reviews followed by close(): the commit is reached only when the
\* loop ends; an exception leaves the transaction uncommitted and close()
\* discards it.
insert_reviews(tbl, sq, batch) ==
    LET st == InsertLoop(batch, 1, [table |-> tbl, seq |-> sq, inserted |-> 0,
                                    raised |-> FALSE])
    IN IF st.raised
       THEN [table |-> tbl, seq |-> sq, inserted |-> 0, raised |-> TRUE]
       ELSE st

BatchIds(batch) == {batch[i].review_id : i \in {j \in 1..Len(batch) : "review_id" \in batch[j].keys}}
BatchValid(batch) ==
    \A i \in 1..Len(batch) : ~RaisesKeyError(batch[i]) /\ SatisfiesConstraints(batch[i])

\* get_summary: AVG(rating) over no rows is NULL, and round(None, 2) raises
\* TypeError
get_summary_raises(tbl) == tbl = {}

\* insert_reviews returned (the exception, if any, came after the commit)
InsertReturned == load_pc \in {"done", "TypeError"}

\* load_to_database with the cleaned artifact holding `batch`
LoadBatch(batch) ==
    LET res == insert_reviews(table, seq, batch) IN
    /\ table' = res.table
    /\ seq' = res.seq
    /\ inserted' = res.inserted
    /\ last_batch' = batch
    /\ prev_table' = table
    /\ ingested_ids' = ingested_ids \cup BatchIds(batch)
    /\ all_valid' = (all_valid /\ BatchValid(batch))
    /\ calls' = calls + 1
    /\ load_pc' = IF res.raised THEN "KeyError"
                 ELSE IF get_summary_raises(res.table) THEN "TypeError"
                 ELSE "done"

(***************************************************************************)
(* Store model: load_to_database run repeatedly on arbitrary artifacts     *)
(***************************************************************************)
StoreIds == {<<"a">>, <<"b">>}
Good == <<"G","o","o","d">>
Alice == <<"A","l","i","c","e">>
Bob == <<"B","o","b">>
Date1 == <<"2","0","2","4">>
Date2 == <<"2","0","2","5">>

StoreValidRecs ==
    {Rec(id, RInt(5), Good, <<"o","k">>, Alice, DStr(Date1), TRUE, FieldNames)
        : id \in StoreIds}
    \cup {Rec(id, RInt(4), <<"B","a","d">>, None, Bob, DStr(Date2), FALSE, FieldNames)
        : id \in StoreIds}
StoreBadRecs ==
    { Rec(<<"a">>, RInt(6), Good, <<"o","k">>, Alice, DStr(Date1), TRUE, FieldNames),
      Rec(<<"b">>, RInt(5), None, <<"o","k">>, Alice, DStr(Date1), TRUE, FieldNames),
      Rec(<<"a">>, RInt(5), Good, <<"o","k">>, Alice, DStr(Date1), TRUE,
          FieldNames \ {"title"}) }
StoreRecs == StoreValidRecs \cup StoreBadRecs

SeqsUpTo(S, n) == UNION {[1..k -> S] : k \in 0..n}

InitIdleScraper ==
    /\ page_num = 0 /\ all_reviews = <<>> /\ attempts = [n \in 1..NumPages |-> 0]
    /\ failed_pages = {} /\ reviews = <<>> /\ scrape_pc = "idle"
    /\ page_cards = <<>> /\ page_reviews = <<>>
InitIdleCard == card = None /\ review = None /\ parse_pc = 0
InitIdleCleaner ==
    /\ df = EmptyFrame /\ cleaned_df = EmptyFrame /\ rows_dropped = 0 /\ dedup_removed = 0
    /\ clean_pc = "idle"
InitEmptyStore ==
    /\ table = {} /\ seq = 0 /\ inserted = 0 /\ last_batch = <<>> /\ prev_table = {}
    /\ ingested_ids = {} /\ all_valid = TRUE /\ calls = 0 /\ load_pc = "idle"

InitStore ==
    /\ InitIdleScraper /\ InitIdleCard /\ InitIdleCleaner /\ InitEmptyStore
    /\ raw_file = Absent /\ cleaned_file = Absent

LoadToDatabaseAny ==
    /\ calls < MaxCalls
    /\ \E batch \in SeqsUpTo(StoreRecs, MaxBatch) : LoadBatch(batch)
    /\ UNCHANGED <<scraperVars, cardVars, cleanerVars, raw_file, cleaned_file>>

NextStore == LoadToDatabaseAny
SpecStore == InitStore /\ [][NextStore]_vars

(***************************************************************************)
(* ReviewCleaner (src/src/cleaner.py)                                      *)
(* A DataFrame is [columns, rows]; rows is a sequence of [idx, row], idx   *)
(* the index label the row got in load_data (labels are never reset).      *)
(***************************************************************************)
Digits == <<"0","1","2","3","4","5","6","7","8","9">>
DigitValue(c) == CHOOSE v \in 0..9 : Digits[v + 1] = c
IsDigit(c) == \E v \in 0..9 : Digits[v + 1] = c

\* str(n) for n >= 0
RECURSIVE IntStr(_)
IntStr(n) == IF n < 10 THEN <<Digits[n + 1]>>
             ELSE IntStr(n \div 10) \o <<Digits[(n % 10) + 1]>>

RECURSIVE DigitsValue(_)
DigitsValue(s) == IF s = <<>> THEN 0
                  ELSE DigitsValue(SubSeq(s, 1, Len(s) - 1)) * 10 + DigitValue(s[Len(s)])

\* pd.to_datetime(errors='coerce', utc=True) followed by tz_localize(None).
\* The date strings of the model are four-digit years; any other string
\* (and None) coerces to NaT.
to_datetime(d) ==
    IF d.k = "str" /\ Len(d.s) = Len(<<"Y","Y","Y","Y">>) /\ \A i \in 1..Len(d.s) : IsDigit(d.s[i])
    THEN DTs(DigitsValue(d.s))
    ELSE IF d.k = "ts" THEN d ELSE NaT

\* Series.dt.strftime('%Y-%m-%d %H:%M:%S')
strftime(d) ==
    IF d.k = "ts"
    THEN DStr(IntStr(d.ts) \o <<"-","0","1","-","0","1"," ","0","0",":","0","0",":","0","0">>)
    ELSE DNone

\* str(row['date']) of a raw cell
DateStr(d) == IF d.k = "str" THEN d.s ELSE <<"N","o","n","e">>

\* str(hash(s)): Python's str hash is an unspecified function of the string,
\* fixed within one process; it is kept symbolic.
HashStr(s) == <<"hash(">> \o s \o <<")">>

\* f"gen_{i}_{hash(str(row['title']) + str(row['date']))}"
GeneratedId(i, row) ==
    <<"g","e","n","_">> \o IntStr(i) \o <<"_">> \o HashStr(Str(row.title) \o DateStr(row.date))

\* pd.DataFrame(data): no columns when data is the empty list
DataFrame(data) ==
    [columns |-> IF data = <<>> THEN {} ELSE FieldNames,
     rows |-> [i \in 1..Len(data) |-> [idx |-> i - 1, row |-> data[i]]]]

SeqFilter(sq, keep) ==
    LET F[i \in 0..Len(sq)] ==
            IF i = 0 THEN <<>>
            ELSE IF i \in keep THEN Append(F[i - 1], sq[i]) ELSE F[i - 1]
    IN F[Len(sq)]

\* DataFrame.drop_duplicates(): a row equal in every column to an earlier row
\* is dropped (NaN equals NaN here)
DropExactDuplicates(rows) ==
    SeqFilter(rows, {i \in 1..Len(rows) : ~\E j \in 1..(i - 1) : rows[j].row = rows[i].row})

\* subset=['title'] instead of ['title', 'reviewer_name']
DropTitleDuplicates(rows) ==
    SeqFilter(rows, {i \in 1..Len(rows) :
                        ~\E j \in 1..(i - 1) : rows[j].row.title = rows[i].row.title})

\* keep='last' instead of keep='first'
DropTitleNameKeepLast(rows) ==
    SeqFilter(rows, {i \in 1..Len(rows) : ~\E j \in (i + 1)..Len(rows) :
                        /\ rows[j].row.title = rows[i].row.title
                        /\ rows[j].row.reviewer_name = rows[i].row.reviewer_name})

\* a pass that drops only the last row that repeats an earlier pair
DropLastRepeatOnly(rows) ==
    LET reps == {i \in 1..Len(rows) : \E j \in 1..(i - 1) :
                    /\ rows[j].row.title = rows[i].row.title
                    /\ rows[j].row.reviewer_name = rows[i].row.reviewer_name}
    IN SeqFilter(rows, {i \in 1..Len(rows) : i \notin reps \/ \E j \in reps : j > i})

\* DataFrame.drop_duplicates(subset=['title', 'reviewer_name'], keep='first')
DropTitleNameDuplicates(rows) ==
    SeqFilter(rows, {i \in 1..Len(rows) : ~\E j \in 1..(i - 1) :
                        /\ rows[j].row.title = rows[i].row.title
                        /\ rows[j].row.reviewer_name = rows[i].row.reviewer_name})

\* drop_duplicates returns a copy of an empty frame at once; on any other
\* frame the subset columns must exist, or it raises KeyError
remove_duplicates_raises(d) ==
    d.rows # <<>> /\ ~({"title", "reviewer_name"} \subseteq d.columns)

remove_duplicates(d) ==
    [d EXCEPT !.rows = DropTitleNameDuplicates(DropExactDuplicates(d.rows))]

\* mask = review_id.isnull() | (review_id == '')
IdMissing(row) == row.review_id = None \/ row.review_id = <<>>

\* the identifier built without the ordinal
MaskOrdinalZero(rows, i) == 0

\* the ordinal of row i among the masked rows (enumerate over self.df[mask])
MaskOrdinal(rows, i) == Cardinality({j \in 1..(i - 1) : IdMissing(rows[j].row)})

BackfillId(rows) ==
    [i \in 1..Len(rows) |->
        IF IdMissing(rows[i].row)
        THEN [rows[i] EXCEPT !.row.review_id = GeneratedId(MaskOrdinal(rows, i), rows[i].row)]
        ELSE rows[i]]

Anonymous == <<"A","n","o","n","y","m","o","u","s">>

\* body.fillna(title); reviewer_name.fillna('Anonymous').replace('', 'Anonymous');
\* is_verified.fillna(False)
FillRow(row) ==
    [row EXCEPT !.body = IF row.body = None THEN row.title ELSE row.body,
                !.reviewer_name = IF row.reviewer_name = None \/ row.reviewer_name = <<>>
                                  THEN Anonymous ELSE row.reviewer_name]

\* dropna(subset=['rating', 'title', 'date'])
CriticalMissing(row) ==
    row.rating.t = "None" \/ row.title = None \/ row.date.k = "None"

DropCritical(rows) ==
    SeqFilter(rows, {i \in 1..Len(rows) : ~CriticalMissing(rows[i].row)})

\* self.df['body'], self.df['title'], self.df['reviewer_name'],
\* self.df['is_verified'] and dropna(subset=critical_fields) raise KeyError
\* on a frame without these columns
handle_missing_values_raises(d) ==
    ~({"body", "title", "reviewer_name", "is_verified", "rating", "date"}
        \subseteq d.columns)

handle_missing_values(d) ==
    LET filled == [i \in 1..Len(d.rows) |->
                      [BackfillId(d.rows)[i] EXCEPT !.row = FillRow(BackfillId(d.rows)[i].row)]]
    IN [d EXCEPT !.rows = DropCritical(filled)]

\* rows_before - len(self.df)
RowsDropped(d) == Len(d.rows) - Len(handle_missing_values(d).rows)

normalize_text_fields(d) ==
    [d EXCEPT !.rows = [i \in 1..Len(d.rows) |->
        [d.rows[i] EXCEPT !.row.title = clean_text(d.rows[i].row.title),
                          !.row.body = clean_text(d.rows[i].row.body),
                          !.row.reviewer_name = clean_text(d.rows[i].row.reviewer_name)]]]

\* pd.to_numeric(errors='coerce').astype('Int64')
to_numeric(r) == IF r.t = "int" THEN r ELSE RNone

convert_types(d) ==
    [d EXCEPT !.rows = [i \in 1..Len(d.rows) |->
        [d.rows[i] EXCEPT !.row.rating = to_numeric(d.rows[i].row.rating),
                          !.row.date = to_datetime(d.rows[i].row.date),
                          !.row.review_id = Str(d.rows[i].row.review_id)]]]

(***************************************************************************)
(* ReviewSchema, validated with lazy=True.  Each operator gives the index  *)
(* labels that the check puts into failure_cases; a check that fails as a  *)
(* whole (not per element) reports the label NoIndex.                      *)
(***************************************************************************)
NoIndex == -1

\* the column declared without unique=True
UniqueNotChecked(rows) == {}

\* Column(unique=True): every row whose value occurs more than once is a
\* failure case (pandera reports all duplicates, not only the later ones)
UniqueFailures(rows) ==
    {rows[i].idx : i \in {k \in 1..Len(rows) :
        \E j \in 1..Len(rows) : j # k /\ rows[j].row.review_id = rows[k].row.review_id}}

\* Column(int, Check.in_range(1, 5), nullable=False), coerce=True
RatingFailures(rows) ==
    {rows[i].idx : i \in {k \in 1..Len(rows) :
        \/ rows[k].row.rating.t # "int"
        \/ rows[k].row.rating.n < RatingMin
        \/ rows[k].row.rating.n > RatingMax}}

\* Check(lambda x: len(x) > 0) is not element-wise: x is the whole column,
\* so the check asks whether the column has at least one row
SeriesLenCheckFailures(column) == IF Len(column) > 0 THEN {} ELSE {NoIndex}

\* nullable=False on a str column
NullFailures(rows, column) ==
    {rows[i].idx : i \in {k \in 1..Len(rows) : rows[k].row[column] = None}}

TitleFailures(rows) ==
    NullFailures(rows, "title")
    \cup SeriesLenCheckFailures([i \in 1..Len(rows) |-> rows[i].row.title])

ReviewerNameFailures(rows) ==
    NullFailures(rows, "reviewer_name")
    \cup SeriesLenCheckFailures([i \in 1..Len(rows) |-> rows[i].row.reviewer_name])

\* Column("datetime64[ns]", nullable=False)
DateFailures(rows) ==
    {rows[i].idx : i \in {k \in 1..Len(rows) : rows[k].row.date.k # "ts"}}

\* e.failure_cases['index'].unique()
FailureCases(rows) ==
    UniqueFailures(rows) \cup RatingFailures(rows) \cup TitleFailures(rows)
    \cup ReviewerNameFailures(rows) \cup DateFailures(rows)

\* ReviewSchema.validate returns the frame when nothing failed; otherwise
\* self.df.drop(index=invalid_indices, errors='ignore')
validate_schema(d) ==
    [d EXCEPT !.rows = SeqFilter(d.rows, {i \in 1..Len(d.rows) :
                                    d.rows[i].idx \notin FailureCases(d.rows)})]

\* save_cleaned_data: to_dict(orient='records') with the date rendered
CleanedRecords(d) ==
    [i \in 1..Len(d.rows) |-> [d.rows[i].row EXCEPT !.date = strftime(d.rows[i].row.date)]]

(***************************************************************************)
(* clean_reviews (the DAG task): one action per step of ReviewCleaner.clean *)
(***************************************************************************)
CleanFrame == <<scraperVars, cardVars, storeVars, raw_file>>

LoadData ==
    /\ clean_pc = "idle"
    /\ IF raw_file = Absent
       THEN /\ clean_pc' = "FileNotFoundError"       \* open() raises
            /\ UNCHANGED df
       ELSE /\ df' = DataFrame(raw_file.data)
            /\ clean_pc' = "loaded"
    /\ UNCHANGED <<cleaned_df, rows_dropped, dedup_removed, cleaned_file, CleanFrame>>

RemoveDuplicates ==
    /\ clean_pc = "loaded"
    /\ IF remove_duplicates_raises(df)
       THEN /\ clean_pc' = "KeyError"
            /\ UNCHANGED <<df, dedup_removed>>
       ELSE /\ df' = remove_duplicates(df)
            /\ dedup_removed' = Len(df.rows) - Len(remove_duplicates(df).rows)
            /\ clean_pc' = "deduped"
    /\ UNCHANGED <<cleaned_df, rows_dropped, cleaned_file, CleanFrame>>

\* a further call of remove_duplicates on the frame it has left
RemoveDuplicatesAgain ==
    /\ clean_pc = "deduped"
    /\ df' = remove_duplicates(df)
    /\ dedup_removed' = Len(df.rows) - Len(remove_duplicates(df).rows)
    /\ UNCHANGED <<clean_pc, cleaned_df, rows_dropped, cleaned_file, CleanFrame>>

HandleMissingValues ==
    /\ clean_pc = "deduped"
    /\ IF handle_missing_values_raises(df)
       THEN /\ clean_pc' = "KeyError"
            /\ UNCHANGED <<df, rows_dropped>>
       ELSE /\ df' = handle_missing_values(df)
            /\ rows_dropped' = RowsDropped(df)
            /\ clean_pc' = "filled"
    /\ UNCHANGED <<cleaned_df, dedup_removed, cleaned_file, CleanFrame>>

NormalizeTextFields ==
    /\ clean_pc = "filled"
    /\ df' = normalize_text_fields(df)
    /\ clean_pc' = "normalized"
    /\ UNCHANGED <<cleaned_df, rows_dropped, dedup_removed, cleaned_file, CleanFrame>>

ConvertTypes ==
    /\ clean_pc = "normalized"
    /\ df' = convert_types(df)
    /\ clean_pc' = "converted"
    /\ UNCHANGED <<cleaned_df, rows_dropped, dedup_removed, cleaned_file, CleanFrame>>

ValidateSchema ==
    /\ clean_pc = "converted"
    /\ cleaned_df' = validate_schema(df)
    /\ clean_pc' = "validated"
    /\ UNCHANGED <<df, rows_dropped, dedup_removed, cleaned_file, CleanFrame>>

SaveCleanedData ==
    /\ clean_pc = "validated"
    /\ cleaned_file' = File(CleanedRecords(cleaned_df))
    /\ clean_pc' = "saved"
    /\ UNCHANGED <<df, cleaned_df, rows_dropped, dedup_removed, CleanFrame>>

CleanReviews ==
    \/ LoadData
    \/ RemoveDuplicates
    \/ HandleMissingValues
    \/ NormalizeTextFields
    \/ ConvertTypes
    \/ ValidateSchema
    \/ SaveCleanedData

CleanerResting == clean_pc \in {"idle", "saved", "FileNotFoundError", "KeyError"}

\* load_to_database that reads a missing artifact as an empty list
LoadToDatabaseMissingAsEmpty ==
    /\ CleanerResting
    /\ calls < MaxCalls
    /\ LoadBatch(cleaned_file.data)
    /\ UNCHANGED <<scraperVars, cardVars, cleanerVars, raw_file, cleaned_file>>

\* load_to_database (the DAG task): load_from_json opens the cleaned artifact
LoadToDatabase ==
    /\ CleanerResting
    /\ calls < MaxCalls
    /\ IF cleaned_file = Absent
       THEN /\ load_pc' = "FileNotFoundError"
            /\ calls' = calls + 1
            /\ UNCHANGED <<table, seq, inserted, last_batch, prev_table,
                           ingested_ids, all_valid>>
       ELSE LoadBatch(cleaned_file.data)
    /\ UNCHANGED <<scraperVars, cardVars, cleanerVars, raw_file, cleaned_file>>

(***************************************************************************)
(* Clean-and-load model: clean_reviews then load_to_database on a raw      *)
(* artifact drawn from RawCandidates                                       *)
(***************************************************************************)
Nice == <<"N","i","c","e">>
Ok == <<"o","k">>
Soon == <<"s","o","o","n">>

Raw(id, rating, title, body, name, date, ver) ==
    Rec(id, rating, title, body, name, date, ver, FieldNames)
Nominal(id, title, name) == Raw(id, RInt(5), title, Ok, name, DStr(Date1), FALSE)

RawCandidates ==
    {Nominal(id, t, Alice) : id \in StoreIds, t \in {Good, Nice}}
    \cup {Nominal(id, Good, n) : id \in {None, <<>>}, n \in {Alice, Bob}}
    \cup {Raw(<<"b">>, r, Nice, Ok, Alice, DStr(Date1), FALSE)
            : r \in {RNone, RInt(0), RInt(6), RStr}}
    \cup {Nominal(<<"b">>, t, Alice) : t \in {None, <<>>, <<"#">>, Good \o <<"#">>}}
    \cup {Nominal(<<"b">>, Nice, n) : n \in {None, <<>>, <<"#">>}}
    \cup {Raw(<<"b">>, RInt(5), Nice, Ok, Alice, d, FALSE) : d \in {DNone, DStr(Soon)}}
    \cup {Raw(<<"a">>, RInt(4), Good, None, Alice, DStr(Date2), TRUE)}

InitClean ==
    /\ InitIdleScraper /\ InitIdleCard /\ InitIdleCleaner /\ InitEmptyStore
    /\ raw_file \in {Absent} \cup {File(b) : b \in SeqsUpTo(RawCandidates, MaxBatch)}
    /\ cleaned_file = Absent

NextClean == CleanReviews \/ LoadToDatabase
SpecClean == InitClean /\ [][NextClean]_vars

(***************************************************************************)
(* Scenario of five raw candidates: positions i < j hold (Good, Alice),    *)
(* position k of the other three has rating 6, the positions in M carry no *)
(* identifier                                                              *)
(***************************************************************************)
ScenarioPositions == 1..5
OtherPairs == << <<Nice, Alice>>, <<Good, Bob>>, <<Nice, Bob>> >>

ScenarioRow(p, i, j, k, M) ==
    LET rank == Cardinality({q \in 1..(p - 1) : q \notin {i, j}}) + 1
        tn == IF p \in {i, j} THEN <<Good, Alice>> ELSE OtherPairs[rank]
    IN Raw(IF p \in M THEN None ELSE <<"r">> \o IntStr(p),
           IF p = k THEN RInt(6) ELSE RInt(5),
           tn[1], Ok, tn[2], DStr(Date1), FALSE)

ScenarioBatches ==
    {[p \in ScenarioPositions |-> ScenarioRow(p, c[1], c[2], c[3], M)] :
        c \in {x \in ScenarioPositions \X ScenarioPositions \X ScenarioPositions :
                    x[1] < x[2] /\ x[3] \notin {x[1], x[2]}},
        M \in SUBSET ScenarioPositions}

InitScenario ==
    /\ InitIdleScraper /\ InitIdleCard /\ InitIdleCleaner /\ InitEmptyStore
    /\ raw_file \in {File(b) : b \in ScenarioBatches}
    /\ cleaned_file = Absent

SpecScenario == InitScenario /\ [][NextClean]_vars

(***************************************************************************)
(* Dedup model: load_data and remove_duplicates, called once and again, on *)
(* a raw artifact of up to MaxRows records drawn from DedupCandidates      *)
(***************************************************************************)
DedupCandidates ==
    {Nominal(id, Good, Alice) : id \in {<<"a">>, <<"b">>, None}}
    \cup {Nominal(<<"a">>, Nice, Alice), Nominal(<<"a">>, Good, Bob)}
    \cup {Nominal(id, Good, None) : id \in {<<"a">>, <<"b">>}}

InitDedup ==
    /\ InitIdleScraper /\ InitIdleCard /\ InitIdleCleaner /\ InitEmptyStore
    /\ raw_file \in {File(b) : b \in SeqsUpTo(DedupCandidates, MaxRows)}
    /\ cleaned_file = Absent

NextDedup == LoadData \/ RemoveDuplicates \/ RemoveDuplicatesAgain
SpecDedup == InitDedup /\ [][NextDedup]_vars

(***************************************************************************)
(* Artifact model: a run of clean_reviews and load_to_database that finds  *)
(* each artifact present or absent and a store filled by earlier runs      *)
(***************************************************************************)
ArtifactRaws == {Nominal(id, Good, Alice) : id \in StoreIds}

InitArtifacts ==
    /\ InitIdleScraper /\ InitIdleCard /\ InitIdleCleaner
    /\ raw_file \in {Absent} \cup {File(b) : b \in SeqsUpTo(ArtifactRaws, MaxBatch)}
    /\ cleaned_file \in {Absent} \cup {File(b) : b \in SeqsUpTo(StoreValidRecs, MaxBatch)}
    /\ \E b \in SeqsUpTo(StoreValidRecs, MaxBatch) :
          LET res == insert_reviews({}, 0, b) IN
          /\ table = res.table /\ seq = res.seq /\ prev_table = res.table
          /\ ingested_ids = BatchIds(b)
    /\ inserted = 0 /\ last_batch = <<>> /\ all_valid = TRUE /\ calls = 0
    /\ load_pc = "idle"

SpecArtifacts == InitArtifacts /\ [][NextClean]_vars

(***************************************************************************)
(* TrustpilotScraper (src/src/scraper.py)                                  *)
(* A card is what the article element answers to the queries of            *)
(* _parse_review_card: the id attribute, the src of the star image, the    *)
(* text of the h2, of the body element, of the paragraphs, of the elements *)
(* of the three name selectors and of the profile link, the datetime of    *)
(* the time element, the card's inner text; None where the element or      *)
(* attribute does not exist.  raise_at is the step at which a query raises *)
(* (0: none).                                                              *)
(***************************************************************************)
Card(id, src, h2, body, paras, n1, n2, n3, link, dt, text, raise_at) ==
    [id_attr |-> id, star_src |-> src, h2 |-> h2, body_elem |-> body,
     paragraphs |-> paras, name1 |-> n1, name2 |-> n2, name3 |-> n3,
     profile_link |-> link, datetime |-> dt, inner_text |-> text,
     raise_at |-> raise_at]

StartsWith(s, prefix) ==
    Len(s) >= Len(prefix) /\ SubSeq(s, 1, Len(prefix)) = prefix
Contains(s, sub) ==
    \E p \in 1..(Len(s) - Len(sub) + 1) : SubSeq(s, p, p + Len(sub) - 1) = sub

UpperCase == <<"A","B","C","D","E","F","G","H","I","J","K","L","M","N","O","P",
               "Q","R","S","T","U","V","W","X","Y","Z">>
LowerCase == <<"a","b","c","d","e","f","g","h","i","j","k","l","m","n","o","p",
               "q","r","s","t","u","v","w","x","y","z">>
\* str.lower()
Lower(s) ==
    [i \in 1..Len(s) |->
        IF \E k \in 1..Len(UpperCase) : UpperCase[k] = s[i]
        THEN LowerCase[CHOOSE k \in 1..Len(UpperCase) : UpperCase[k] = s[i]]
        ELSE s[i]]

StarsToken == <<"s","t","a","r","s","-">>
\* _extract_rating: re.search(r'stars-(\d)', img_src), else 0
_extract_rating(src) ==
    LET hits == {p \in 1..(Len(src) - Len(StarsToken)) :
                    /\ SubSeq(src, p, p + Len(StarsToken) - 1) = StarsToken
                    /\ IsDigit(src[p + Len(StarsToken)])}
    IN IF hits = {} THEN 0
       ELSE DigitValue(src[(CHOOSE p \in hits : \A q \in hits : p <= q) + Len(StarsToken)])

\* Python truthiness of a str-or-None
Truthy(x) == x # None /\ x # <<>>

EmptyReview == Raw(None, RInt(0), None, None, None, DNone, FALSE)

BoilerplatePrefixes == {<<"D","a","t","e"," ","o","f"," ","e","x","p","e","r","i","e","n","c","e">>,
                        <<"U","p","d","a","t","e","d">>,
                        <<"R","e","p","l","i","e","d">>}
\* len(text) > 20 and not re.match(r'^(Date of experience|Updated|Replied)', text)
MinBodyLen == 20
ParagraphQualifies(text) ==
    Len(text) > MinBodyLen /\ ~\E pre \in BoilerplatePrefixes : StartsWith(text, pre)

\* the for loop over the paragraphs without the break: the last qualifying one
LastParagraph(paras) ==
    LET hits == {i \in 1..Len(paras) : ParagraphQualifies(Strip(paras[i]))}
    IN IF hits = {} THEN None
       ELSE Strip(paras[CHOOSE i \in hits : \A j \in hits : i >= j])

\* the for loop over the paragraphs: the first qualifying one, stripped
FirstParagraph(paras) ==
    LET hits == {i \in 1..Len(paras) : ParagraphQualifies(Strip(paras[i]))}
    IN IF hits = {} THEN None
       ELSE Strip(paras[CHOOSE i \in hits : \A j \in hits : i <= j])

\* the loop over name_selectors: the first selector whose element exists
\* sets the name (also to '') and ends the loop
FirstNameElement(c) ==
    IF c.name1 # None THEN Strip(c.name1)
    ELSE IF c.name2 # None THEN Strip(c.name2)
    ELSE IF c.name3 # None THEN Strip(c.name3)
    ELSE None

\* the statements of the try block, in order
ParseStep(k, c, r) ==
    CASE k = 1 -> IF Truthy(c.id_attr) THEN [r EXCEPT !.review_id = c.id_attr] ELSE r
      [] k = 2 -> IF c.star_src # None
                  THEN [r EXCEPT !.rating = RInt(_extract_rating(c.star_src))] ELSE r
      [] k = 3 -> IF c.h2 # None THEN [r EXCEPT !.title = Strip(c.h2)] ELSE r
      [] k = 4 -> IF c.body_elem = None
                  THEN (IF FirstParagraph(c.paragraphs) # None
                        THEN [r EXCEPT !.body = FirstParagraph(c.paragraphs)] ELSE r)
                  ELSE [r EXCEPT !.body = Strip(c.body_elem)]
      [] k = 5 -> IF FirstNameElement(c) # None
                  THEN [r EXCEPT !.reviewer_name = FirstNameElement(c)] ELSE r
      [] k = 6 -> IF ~Truthy(r.reviewer_name) /\ c.profile_link # None
                  THEN [r EXCEPT !.reviewer_name = Strip(c.profile_link)] ELSE r
      [] k = 7 -> IF c.datetime # None THEN [r EXCEPT !.date = DStr(c.datetime)] ELSE r
      [] OTHER -> [r EXCEPT !.is_verified = Contains(Lower(c.inner_text), <<"v","e","r","i","f","i","e","d">>)]
LastStep == 8

RECURSIVE RunSteps(_, _, _, _)
RunSteps(c, r, k, stop) ==
    IF k >= stop THEN r ELSE RunSteps(c, ParseStep(k, c, r), k + 1, stop)

\* _parse_review_card: an exception ends the try block; the except clause
\* logs it, and the review as filled so far is returned
_parse_review_card(c) ==
    RunSteps(c, EmptyReview, 1, IF c.raise_at = 0 THEN LastStep + 1 ELSE c.raise_at)

\* if review['review_id'] or review['title']
Emitted(r) == Truthy(r.review_id) \/ Truthy(r.title)

\* the for loop of scrape_page over review_cards
PageReviews(cards) ==
    LET F[i \in 0..Len(cards)] ==
            IF i = 0 THEN <<>>
            ELSE IF Emitted(_parse_review_card(cards[i]))
                 THEN Append(F[i - 1], _parse_review_card(cards[i]))
                 ELSE F[i - 1]
    IN F[Len(cards)]

(***************************************************************************)
(* scrape_reviews (the DAG task): scrape_all_pages, then save_to_json      *)
(***************************************************************************)
ScrapeFrame == <<cardVars, cleanerVars, storeVars, cleaned_file>>

StartScrape ==
    /\ scrape_pc = "idle"
    /\ all_reviews' = <<>>
    /\ page_num' = 1
    /\ scrape_pc' = "scraping"
    /\ UNCHANGED <<attempts, failed_pages, reviews, page_cards, page_reviews,
                   raw_file, ScrapeFrame>>

\* scrape_all_pages without the try/except: the exception ends the crawl
ScrapePageFailsAborts ==
    /\ scrape_pc = "scraping" /\ page_num <= NumPages
    /\ attempts' = [attempts EXCEPT ![page_num] = @ + 1]
    /\ failed_pages' = failed_pages \cup {page_num}
    /\ scrape_pc' = "Exception"
    /\ UNCHANGED <<page_num, all_reviews, reviews, page_cards, page_reviews,
                   raw_file, ScrapeFrame>>

\* scrape_page raises (page.goto fails, wait_for_selector times out, or
\* query_selector_all fails): except Exception logs and continues
ScrapePageFails ==
    /\ scrape_pc = "scraping" /\ page_num <= NumPages
    /\ attempts' = [attempts EXCEPT ![page_num] = @ + 1]
    /\ failed_pages' = failed_pages \cup {page_num}
    /\ page_num' = page_num + 1
    /\ UNCHANGED <<all_reviews, reviews, scrape_pc, page_cards, page_reviews,
                   raw_file, ScrapeFrame>>

\* scrape_page returns page_reviews: all_reviews.extend(page_reviews)
ScrapePageReturns(cards) ==
    /\ scrape_pc = "scraping" /\ page_num <= NumPages
    /\ attempts' = [attempts EXCEPT ![page_num] = @ + 1]
    /\ page_cards' = cards
    /\ page_reviews' = PageReviews(cards)
    /\ all_reviews' = all_reviews \o PageReviews(cards)
    /\ page_num' = page_num + 1
    /\ UNCHANGED <<failed_pages, reviews, scrape_pc, raw_file, ScrapeFrame>>

\* the loop is exhausted: browser.close(); self.reviews = all_reviews
FinishScrape ==
    /\ scrape_pc = "scraping" /\ page_num > NumPages
    /\ reviews' = all_reviews
    /\ scrape_pc' = "scraped"
    /\ UNCHANGED <<page_num, all_reviews, attempts, failed_pages, page_cards,
                   page_reviews, raw_file, ScrapeFrame>>

\* save_to_json writes the artifact wholesale
SaveToJson ==
    /\ scrape_pc = "scraped"
    /\ raw_file' = File(reviews)
    /\ scrape_pc' = "saved"
    /\ UNCHANGED <<page_num, all_reviews, attempts, failed_pages, reviews,
                   page_cards, page_reviews, ScrapeFrame>>

(***************************************************************************)
(* Crawl model: pages whose cards are drawn from ScrapeCards               *)
(***************************************************************************)
Src5 == <<"/","s","t","a","r","s","-","5",".","s","v","g">>
LongBody == <<"F","a","s","t"," ","d","e","l","i","v","e","r","y",","," ","g","r","e","a","t"," ","s","u","p","p","o","r","t">>
CardText == <<"A","l","i","c","e"," ","V","e","r","i","f","i","e","d"," ","G","o","o","d">>

GoodCard == Card(<<"r","1">>, Src5, Good, LongBody, <<>>, Alice, None, None, None,
                 Date1, CardText, 0)
\* raises at the body query, after the id, the rating and the title are read
PartialCard == [GoodCard EXCEPT !.id_attr = <<"r","2">>, !.h2 = Nice, !.raise_at = 4]
\* raises at the first query
BrokenCard == [GoodCard EXCEPT !.raise_at = 1]
\* an article without id and without h2
BareCard == [GoodCard EXCEPT !.id_attr = None, !.h2 = None]

ScrapeCards == {GoodCard, PartialCard, BrokenCard, BareCard}

InitScrape ==
    /\ InitIdleScraper /\ InitIdleCard /\ InitIdleCleaner /\ InitEmptyStore
    /\ raw_file = Absent /\ cleaned_file = Absent

NextScrape ==
    \/ StartScrape
    \/ ScrapePageFails
    \/ \E cards \in SeqsUpTo(ScrapeCards, MaxCards) : ScrapePageReturns(cards)
    \/ FinishScrape
    \/ SaveToJson

SpecScrape == InitScrape /\ [][NextScrape]_vars

\* the loop body, FinishScrape and SaveToJson are straight-line code: once
\* scrape_reviews has started, its next statement is executed
FairScrape == SpecScrape /\ WF_vars(NextScrape)

(***************************************************************************)
(* Card model: _parse_review_card on one article drawn from ParseCards,    *)
(* one action per statement of its try block                               *)
(***************************************************************************)
\* the next statement of the try block runs
ParseStatement ==
    /\ parse_pc \in 1..LastStep
    /\ card.raise_at # parse_pc
    /\ review' = ParseStep(parse_pc, card, review)
    /\ parse_pc' = parse_pc + 1
    /\ UNCHANGED <<card, scraperVars, cleanerVars, storeVars, raw_file, cleaned_file>>

\* the next statement raises: except Exception logs, then `return review`
ParseRaises ==
    /\ parse_pc \in 1..LastStep
    /\ card.raise_at = parse_pc
    /\ parse_pc' = LastStep + 1
    /\ UNCHANGED <<card, review, scraperVars, cleanerVars, storeVars, raw_file,
                   cleaned_file>>

ParseReturned == parse_pc = LastStep + 1

Carol == <<"C","a","r","o","l">>
Dan == <<"D","a","n">>
ShortLine == <<"U","s","e","f","u","l">>
PaddedLine == <<"o","k"," "," "," "," "," "," "," "," "," "," "," "," "," "," "," "," "," "," "," "," ">>
DateLine == <<"D","a","t","e"," ","o","f"," ","e","x","p","e","r","i","e","n","c","e",":"," ","M","a","y"," ","2","0","2","4">>
UpdatedLine == <<"U","p","d","a","t","e","d"," ","3"," ","d","a","y","s"," ","a","g","o"," ","b","y"," ","a","u","t","h","o","r">>
OtherBody == <<"W","o","u","l","d"," ","o","r","d","e","r"," ","a","g","a","i","n"," ","n","e","x","t"," ","m","o","n","t","h">>
ParagraphTexts == {ShortLine, PaddedLine, DateLine, UpdatedLine, LongBody, OtherBody}

ParseCards ==
    {Card(<<"r","1">>, Src5, Good, b, ps, n1, n2, n3, l, Date1, CardText, x) :
        b \in {None, <<>>, <<" ">> \o Nice \o <<" ">>},
        ps \in SeqsUpTo(ParagraphTexts, MaxParagraphs),
        n1 \in {None, <<>>, Alice \o <<" ">>},
        n2 \in {None, <<" ">>, Bob},
        n3 \in {None, Carol},
        l \in {None, Dan},
        x \in {0, 5}}

InitCard ==
    /\ InitIdleScraper /\ InitIdleCleaner /\ InitEmptyStore
    /\ raw_file = Absent /\ cleaned_file = Absent
    /\ card \in ParseCards
    /\ review = EmptyReview
    /\ parse_pc = 1

NextCard == ParseStatement \/ ParseRaises
SpecCard == InitCard /\ [][NextCard]_vars

(***************************************************************************)
(* Pipeline model: the DAG task_scrape >> task_clean >> task_load, a task  *)
(* starting when the task before it has succeeded                          *)
(***************************************************************************)
TaskScrape == NextScrape
TaskClean == scrape_pc = "saved" /\ CleanReviews
TaskLoad == clean_pc = "saved" /\ LoadToDatabase

NextPipeline == TaskScrape \/ TaskClean \/ TaskLoad
SpecPipeline == InitScrape /\ [][NextPipeline]_vars

(***************************************************************************)
(* Properties of the store (SpecStore)                                     *)
(***************************************************************************)
SameFields(x, r) ==
    /\ x.review_id = r.review_id
    /\ x.rating = r.rating.n
    /\ x.title = r.title
    /\ x.body = r.body
    /\ x.reviewer_name = r.reviewer_name
    /\ x.date = r.date
    /\ (x.is_verified = 1) = r.is_verified

\* record i is the last record of the batch that is stored under its review_id
LastWriter(batch, i) ==
    /\ SatisfiesConstraints(batch[i])
    /\ ~\E j \in (i + 1)..Len(batch) :
           SatisfiesConstraints(batch[j]) /\ batch[j].review_id = batch[i].review_id

\* C1: idempotent upsert.  Whatever the store held before (in particular a
\* row r1 with the same review_id), after insert_reviews has stored a valid
\* record r2 there is exactly one row with r2's review_id, and its rating,
\* title, body, reviewer_name, date and is_verified are those of r2.
C1_IdempotentUpsert ==
    InsertReturned =>
        \A i \in 1..Len(last_batch) :
            LastWriter(last_batch, i) =>
                LET rows == {x \in table : x.review_id = last_batch[i].review_id}
                IN /\ Cardinality(rows) = 1
                   /\ \A x \in rows : SameFields(x, last_batch[i])

\* a second call has overwritten a row r1 by a record r2 that differs from it
\* in every field but the review_id
C1_Witness ==
    /\ InsertReturned /\ calls = 2 /\ Len(last_batch) = 1
    /\ SatisfiesConstraints(last_batch[1])
    /\ \E x \in prev_table :
          /\ x.review_id = last_batch[1].review_id
          /\ x.rating # last_batch[1].rating.n
          /\ x.title # last_batch[1].title
          /\ x.body # last_batch[1].body
          /\ x.reviewer_name # last_batch[1].reviewer_name
          /\ x.date # last_batch[1].date
          /\ (x.is_verified = 1) # last_batch[1].is_verified

\* C2: no two stored rows share a review_id, and as long as every ingested
\* record satisfied the table constraints the number of stored rows is the
\* number of distinct review_id values ingested so far.
C2_RowsAreDistinctIds ==
    /\ \A x, y \in table : x.review_id = y.review_id => x = y
    /\ all_valid => Cardinality(table) = Cardinality(ingested_ids)

\* more records than identifiers have been ingested, over two batches
C2_Witness ==
    /\ all_valid /\ calls = 2 /\ InsertReturned
    /\ seq > Cardinality(ingested_ids)
    /\ Cardinality(ingested_ids) = 2

\* the insert of record r succeeds
InsertSucceeds(r) == ~RaisesKeyError(r) /\ SatisfiesConstraints(r)

\* C11: per-row insert recovery.  After insert_reviews was called on a batch,
\* the call has returned the number of records whose insert succeeds, every
\* such record is stored (the last one per review_id), and for a record whose
\* insert fails (constraint violation or missing field) the rows stored under
\* its review_id are those stored before the call.
C11_PerRowRecovery ==
    calls > 0 =>
        /\ load_pc # "KeyError"
        /\ inserted = Cardinality({i \in 1..Len(last_batch) : InsertSucceeds(last_batch[i])})
        /\ \A i \in 1..Len(last_batch) :
              LET r == last_batch[i]
                  rows(tbl) == {x \in tbl : x.review_id = r.review_id}
                  later == {j \in (i + 1)..Len(last_batch) :
                               /\ InsertSucceeds(last_batch[j])
                               /\ last_batch[j].review_id = r.review_id}
                  any == {j \in 1..Len(last_batch) :
                               /\ InsertSucceeds(last_batch[j])
                               /\ last_batch[j].review_id = r.review_id}
              IN /\ (InsertSucceeds(r) /\ later = {}) =>
                        /\ Cardinality(rows(table)) = 1
                        /\ \A x \in rows(table) : SameFields(x, r)
                 /\ (~InsertSucceeds(r) /\ "review_id" \in r.keys /\ any = {}) =>
                        rows(table) = rows(prev_table)

(***************************************************************************)
(* Properties of the clean-and-load run (SpecClean, SpecScenario)          *)
(***************************************************************************)
Validated == clean_pc \in {"validated", "saved"}

RowIds(rows) == {rows[i].idx : i \in 1..Len(rows)}
RowAt(rows, idx) == (CHOOSE i \in 1..Len(rows) : rows[i].idx = idx)

\* the fields of the stored rows, without the surrogate key
Unkeyed(tbl) == {[x EXCEPT !.id = 0] : x \in tbl}

\* C3: in the five-candidate scenario remove_duplicates leaves 4 rows,
\* validation accepts 3 and rejects 1, the first load of the accepted rows
\* leaves 3 stored rows, and a second load of the same rows leaves 3 stored
\* rows with the same field values.
C3_Scenario ==
    /\ clean_pc = "deduped" => Len(df.rows) = 4 /\ dedup_removed = 1
    /\ Validated => /\ Len(cleaned_df.rows) = 3
                    /\ Len(df.rows) - Len(cleaned_df.rows) = 1
    /\ (InsertReturned /\ cleaned_file # Absent) =>
            /\ Cardinality(table) = 3
            /\ inserted = 3
            /\ Unkeyed(table) = {[StoredRow(0, cleaned_file.data[i]) EXCEPT !.id = 0]
                                    : i \in 1..Len(cleaned_file.data)}
            /\ prev_table # {} => Unkeyed(table) = Unkeyed(prev_table)

\* the accepted rows have been loaded twice
C3_Witness ==
    /\ load_pc = "done" /\ calls = 2 /\ clean_pc = "saved"
    /\ Cardinality(prev_table) = 3 /\ Cardinality(table) = 3
    /\ \A x \in table : \A y \in prev_table : x.id # y.id

\* the rules of ReviewSchema, row by row
RatingInRange(row) ==
    row.rating.t = "int" /\ row.rating.n >= RatingMin /\ row.rating.n <= RatingMax
SchemaRowOk(rows, i) ==
    /\ RatingInRange(rows[i].row)
    /\ rows[i].row.title \notin {None, <<>>}
    /\ rows[i].row.reviewer_name \notin {None, <<>>}
    /\ rows[i].row.date.k = "ts"
    /\ ~\E j \in 1..Len(rows) : j # i /\ rows[j].row.review_id = rows[i].row.review_id

\* C4: every row of the accepted set has a rating in 1..5, a non-empty title
\* and a non-empty reviewer_name, and every row that violates no rule of the
\* schema is in the accepted set.
C4_SchemaInvariant ==
    Validated =>
        /\ \A i \in 1..Len(cleaned_df.rows) :
              /\ RatingInRange(cleaned_df.rows[i].row)
              /\ cleaned_df.rows[i].row.title # <<>>
              /\ cleaned_df.rows[i].row.reviewer_name # <<>>
        /\ \A i \in 1..Len(df.rows) :
              SchemaRowOk(df.rows, i) => df.rows[i].idx \in RowIds(cleaned_df.rows)

\* C15: every record that enters schema validation (after backfill, drop,
\* text normalization and type coercion) has a non-empty title and a
\* non-empty reviewer_name.
C15_NonEmptyAfterNormalization ==
    clean_pc = "converted" =>
        \A i \in 1..Len(df.rows) :
            /\ df.rows[i].row.title \notin {None, <<>>}
            /\ df.rows[i].row.reviewer_name \notin {None, <<>>}

\* C18: in the accepted output of a cleaning run no two rows have the same
\* (title, reviewer_name) pair, the pair being the one the rows carry after
\* backfill and text normalization.
C18_DedupOnNormalizedRecords ==
    Validated =>
        \A i, j \in 1..Len(cleaned_df.rows) :
            i # j => ~( /\ cleaned_df.rows[i].row.title = cleaned_df.rows[j].row.title
                        /\ cleaned_df.rows[i].row.reviewer_name
                             = cleaned_df.rows[j].row.reviewer_name )

\* C5: no two rows of the accepted output have the same review_id.
C5_AcceptedIdsUnique ==
    Validated =>
        \A i, j \in 1..Len(cleaned_df.rows) :
            cleaned_df.rows[i].row.review_id = cleaned_df.rows[j].row.review_id => i = j

\* two rows with the same review_id entered validation
C5_Witness ==
    /\ clean_pc = "validated"
    /\ \E i, j \in 1..Len(df.rows) :
          i # j /\ df.rows[i].row.review_id = df.rows[j].row.review_id

\* C6: rows that share a review_id and violate no other rule of the schema
\* collapse to one: exactly one row with that review_id is accepted.
C6_DuplicateIdsCollapseToOne ==
    Validated =>
        \A i, j \in 1..Len(df.rows) :
            ( /\ i # j
              /\ df.rows[i].row.review_id = df.rows[j].row.review_id
              /\ \A k \in 1..Len(df.rows) :
                    df.rows[k].row.review_id = df.rows[i].row.review_id =>
                        /\ RatingInRange(df.rows[k].row)
                        /\ df.rows[k].row.date.k = "ts" )
            => Cardinality({k \in 1..Len(cleaned_df.rows) :
                    cleaned_df.rows[k].row.review_id = df.rows[i].row.review_id}) = 1

\* a critical field of the row is missing once the types are coerced
MissingAfterCoercion(row) ==
    \/ to_numeric(row.rating) = RNone
    \/ row.title = None
    \/ to_datetime(row.date) = NaT

\* C7: the critical-field drop step removes every candidate whose rating is
\* missing after coercion (null or non-numeric), whose title is missing or
\* whose date does not parse, and the dropped-row count is the number of
\* those candidates.
C7_CriticalFieldDrop ==
    [][HandleMissingValues =>
        /\ \A i \in 1..Len(df.rows) :
              MissingAfterCoercion(df.rows[i].row) => df.rows[i].idx \notin RowIds(df'.rows)
        /\ rows_dropped' = Cardinality({i \in 1..Len(df.rows) :
                                            MissingAfterCoercion(df.rows[i].row)})]_vars

IsGenerated(id) == Len(id) >= 4 /\ SubSeq(id, 1, 4) = <<"g","e","n","_">>

\* C8 as claimed: every identity-less record gets a non-empty identifier, and
\* two identity-less records with identical title and raw date get the same
\* identifier.
C8_SameIdForSameTitleDate ==
    [][HandleMissingValues =>
        \A i \in 1..Len(df.rows) :
            (IdMissing(df.rows[i].row) /\ df.rows[i].idx \in RowIds(df'.rows)) =>
                /\ df'.rows[RowAt(df'.rows, df.rows[i].idx)].row.review_id \notin {None, <<>>}
                /\ \A j \in 1..Len(df.rows) :
                      ( /\ IdMissing(df.rows[j].row)
                        /\ df.rows[j].idx \in RowIds(df'.rows)
                        /\ df.rows[j].row.title = df.rows[i].row.title
                        /\ df.rows[j].row.date = df.rows[i].row.date )
                      => df'.rows[RowAt(df'.rows, df.rows[j].idx)].row.review_id
                           = df'.rows[RowAt(df'.rows, df.rows[i].idx)].row.review_id]_vars

\* C8 (amended): every identity-less record gets the non-empty identifier
\* gen_<ordinal>_<hash of title + raw date>, the ordinal being its position
\* among the identity-less records; two identity-less records of one run get
\* different identifiers, also when their title and raw date are identical,
\* and then the identifiers differ in the ordinal only.
C8_GeneratedIdsDifferByOrdinal ==
    [][HandleMissingValues =>
        \A i \in 1..Len(df.rows) :
            (IdMissing(df.rows[i].row) /\ df.rows[i].idx \in RowIds(df'.rows)) =>
                LET new(k) == df'.rows[RowAt(df'.rows, df.rows[k].idx)].row.review_id
                    ord(k) == Cardinality({m \in 1..(k - 1) : IdMissing(df.rows[m].row)})
                IN /\ new(i) \notin {None, <<>>}
                   /\ new(i) = GeneratedId(ord(i), df.rows[i].row)
                   /\ \A j \in 1..Len(df.rows) :
                         ( /\ j # i
                           /\ IdMissing(df.rows[j].row)
                           /\ df.rows[j].idx \in RowIds(df'.rows) )
                         => /\ new(j) # new(i)
                            /\ ( /\ df.rows[j].row.title = df.rows[i].row.title
                                 /\ df.rows[j].row.date = df.rows[i].row.date )
                               => GeneratedId(ord(i), df.rows[j].row) = new(i)]_vars

\* two identity-less records with the same title and raw date were backfilled
C8_Witness ==
    /\ clean_pc = "filled"
    /\ \E i, j \in 1..Len(df.rows) :
          /\ i # j
          /\ IsGenerated(df.rows[i].row.review_id)
          /\ IsGenerated(df.rows[j].row.review_id)
          /\ df.rows[i].row.title = df.rows[j].row.title
          /\ df.rows[i].row.date = df.rows[j].row.date

(***************************************************************************)
(* Properties of remove_duplicates (SpecDedup)                             *)
(***************************************************************************)
SamePair(r1, r2) == r1.title = r2.title /\ r1.reviewer_name = r2.reviewer_name

\* C16: dedup idempotence.  A call of remove_duplicates on the frame that
\* remove_duplicates has left removes no row and leaves the rows and their
\* order as they are.
C16_DedupIdempotent ==
    [][(clean_pc = "deduped" /\ clean_pc' = "deduped")
        => (df' = df /\ dedup_removed' = 0)]_vars

\* the second call has run (it reset the removed count) on a frame of two or
\* more rows that the first call had shortened
C16_Witness ==
    /\ clean_pc = "deduped" /\ dedup_removed = 0
    /\ Len(df.rows) >= 2
    /\ Len(df.rows) < Len(raw_file.data)

C12_MissingInputIsFatal ==
    /\ [](raw_file = Absent => clean_pc \in {"idle", "FileNotFoundError"})
    /\ [][(raw_file = Absent \/ clean_pc = "FileNotFoundError")
            => cleaned_file' = cleaned_file]_vars
    /\ [][(clean_pc = "idle" /\ clean_pc' # "idle" /\ raw_file = Absent)
            => clean_pc' = "FileNotFoundError"]_vars
    /\ [][clean_pc = "FileNotFoundError" => clean_pc' = "FileNotFoundError"]_vars
    /\ [][(calls' # calls /\ cleaned_file = Absent)
            => /\ load_pc' = "FileNotFoundError"
               /\ table' = table /\ seq' = seq /\ inserted' = inserted]_vars

\* both stages have failed on their missing input, the store holding rows
C12_Witness ==
    /\ clean_pc = "FileNotFoundError" /\ raw_file = Absent
    /\ load_pc = "FileNotFoundError" /\ cleaned_file = Absent
    /\ table # {}

(***************************************************************************)
(* Properties of the card parser (SpecCard)                                *)
(***************************************************************************)
\* the statements run one by one build what _parse_review_card returns
ParseAgrees == ParseReturned => review = _parse_review_card(card)

\* C13: reviewer-name strategy chain.  When the card was parsed without an
\* exception, reviewer_name is the trimmed text of the first of the three
\* selectors (in order) whose text is non-empty; only if none of the three
\* yields a non-empty text is it the text of the user-profile anchor, and it
\* is empty or null if that anchor does not exist either.
C13_FirstNonEmptyNameWins ==
    (ParseReturned /\ card.raise_at = 0) =>
        LET yields == <<card.name1, card.name2, card.name3>>
            hits == {i \in 1..3 : yields[i] # None /\ Strip(yields[i]) # <<>>}
        IN IF hits # {}
           THEN review.reviewer_name = Strip(yields[CHOOSE i \in hits : \A j \in hits : i <= j])
           ELSE IF card.profile_link # None
                THEN review.reviewer_name = Strip(card.profile_link)
                ELSE ~Truthy(review.reviewer_name)

\* C14: body fallback ordering.  Once the body statement has run, the body
\* is the trimmed text of the primary body element if the card has one;
\* otherwise the first paragraph whose trimmed text is longer than 20
\* characters and does not start with a boilerplate prefix; otherwise null.
C14_BodyFallbackOrdering ==
    (parse_pc > 4 /\ card.raise_at \notin 1..4) =>
        IF card.body_elem # None
        THEN review.body = Strip(card.body_elem)
        ELSE LET ps == card.paragraphs
                 ok == {i \in 1..Len(ps) :
                           /\ Len(Strip(ps[i])) > MinBodyLen
                           /\ ~\E pre \in BoilerplatePrefixes : StartsWith(Strip(ps[i]), pre)}
             IN IF ok = {} THEN review.body = None
                ELSE \E i \in ok : /\ \A j \in ok : i <= j
                                    /\ review.body = Strip(ps[i])

\* no primary element; a boilerplate paragraph was passed over and the first
\* of the paragraphs behind it was taken
C14_Witness ==
    /\ ParseReturned /\ card.raise_at = 0
    /\ card.body_elem = None
    /\ card.paragraphs = <<DateLine, LongBody>>
    /\ review.body = LongBody

(***************************************************************************)
(* Properties of the pipeline (SpecPipeline)                               *)
(***************************************************************************)
StageRaised ==
    \/ scrape_pc = "Exception"
    \/ clean_pc \in {"KeyError", "FileNotFoundError"}
    \/ load_pc \in {"KeyError", "TypeError", "FileNotFoundError"}

\* C19: a run with nothing to ingest is not a stage failure.  When the crawl
\* has accumulated no record, the extract stage writes an empty raw
\* artifact, no stage raises, the clean stage ends with an empty accepted
\* set written as an empty cleaned artifact, and the load stage ends with
\* count 0.
C19_EmptyRunCompletes ==
    (scrape_pc = "saved" /\ reviews = <<>>) =>
        /\ raw_file = File(<<>>)
        /\ ~StageRaised
        /\ clean_pc = "saved" => (cleaned_df.rows = <<>> /\ cleaned_file = File(<<>>))
        /\ load_pc = "done" => inserted = 0

(***************************************************************************)
(* Properties of the crawl (SpecScrape, FairScrape)                        *)
(***************************************************************************)
IsPrefix(a, b) == Len(a) <= Len(b) /\ SubSeq(b, 1, Len(a)) = a

\* the records of the cards of a page that are parsed without an exception
\* and carry an id or a title, in card order
RecordsOfCleanCards(cards) ==
    LET F[i \in 0..Len(cards)] ==
            IF i = 0 THEN <<>>
            ELSE IF cards[i].raise_at = 0 /\ Emitted(_parse_review_card(cards[i]))
                 THEN Append(F[i - 1], _parse_review_card(cards[i]))
                 ELSE F[i - 1]
    IN F[Len(cards)]

\* C9: a card whose parsing raises contributes no record to the page's
\* candidates, whatever had been read before the exception, and every other
\* card of the page is parsed and emitted in card order.
C9_RaisingCardIsSkipped == page_reviews = RecordsOfCleanCards(page_cards)

\* C10: every page 1..num_pages is attempted exactly once, in ascending
\* order; a page that fails adds nothing and removes nothing, and the next
\* page follows without a retry; a page that returns appends its candidates;
\* the crawl ends only after page num_pages was attempted, the batch handed
\* on is the accumulated one, and the crawl always ends.
C10_PageLoop ==
    /\ [](scrape_pc = "scraping" =>
            \A n \in 1..NumPages : attempts[n] = IF n < page_num THEN 1 ELSE 0)
    /\ [](scrape_pc \in {"scraped", "saved"} =>
            /\ page_num = NumPages + 1
            /\ \A n \in 1..NumPages : attempts[n] = 1)
    /\ [](scrape_pc = "saved" => raw_file = File(all_reviews))
    /\ [][(scrape_pc = "scraping" /\ attempts' # attempts) =>
            /\ page_num' = page_num + 1
            /\ scrape_pc' = "scraping"
            /\ IsPrefix(all_reviews, all_reviews')
            /\ page_num \in failed_pages' => all_reviews' = all_reviews
            /\ page_num \notin failed_pages' => all_reviews' = all_reviews \o page_reviews']_vars
    /\ <>(scrape_pc = "saved")

\* a crawl has ended whose first page gave candidates and whose last page failed
C10_Witness ==
    /\ scrape_pc = "saved"
    /\ failed_pages = {NumPages}
    /\ all_reviews # <<>>
    /\ raw_file = File(all_reviews)

=============================================================================
